---------------------------- MODULE Spec2Model ----------------------------
(***************************************************************************)
(* Model of add_files_to_xcode.py: one run of add_files_to_xcode_project   *)
(* over the text of project.pbxproj.                                       *)
(*                                                                         *)
(* The document is a sequence of lexical pieces (tokens), each the text    *)
(* the script's regular expressions and substring tests can tell apart:    *)
(* section markers, record heads "ID = {", attributes, whole one-line      *)
(* records, list entries and the closing ");" and "};".  The regular       *)
(* expressions, str.replace and re.sub are operators over such sequences.  *)
(* A 24-character identifier is a natural number (0: no identifier); a     *)
(* path is the sequence of its components.                                 *)
(***************************************************************************)
EXTENDS Naturals, Sequences, FiniteSets

(* ------------------------------ bounds -------------------------------- *)
NumFiles == 2      \* how many entries of files_to_add a run processes
MaxEntries == 1    \* entries already in the sources phase's files list
MaxRuns == 2       \* invocations of the script in the re-run specification

(* --------------------------- program data ----------------------------- *)
AllFiles ==
  << <<"TransactionsTestTask", "Core", "Logging", "BitcoinRateLogger.swift">>,
     <<"TransactionsTestTask", "Domain", "UseCases", "AddTransactionUseCase.swift">>,
     <<"TransactionsTestTask", "Domain", "UseCases", "UpdateBitcoinRateUseCase.swift">>,
     <<"TransactionsTestTask", "Domain", "UseCases", "FetchTransactionsUseCase.swift">>,
     <<"TransactionsTestTask", "Presentation", "ViewModels", "AddTransactionViewModel.swift">>,
     <<"TransactionsTestTask", "Presentation", "ViewModels", "DashboardViewModel.swift">>,
     <<"TransactionsTestTask", "Presentation", "Views", "Dashboard", "DashboardViewController.swift">>,
     <<"TransactionsTestTask", "Presentation", "Views", "Dashboard", "DashboardHeaderView.swift">>,
     <<"TransactionsTestTask", "Presentation", "Views", "Dashboard", "TransactionListView.swift">>,
     <<"TransactionsTestTask", "Presentation", "Views", "Common", "LoadMoreTableViewCell.swift">>,
     <<"TransactionsTestTask", "Presentation", "Views", "Common", "TransactionTableViewCell.swift">>,
     <<"TransactionsTestTask", "Presentation", "Views", "AddTransaction", "AddTransactionViewController.swift">>,
     <<"TransactionsTestTask", "Core", "Coordinator", "AppCoordinator.swift">> >>

files_to_add == SubSeq(AllFiles, 1, NumFiles)

\* os.path.basename: the component after the last "/"
basename(p) == p[Len(p)]

(* ------------------------------ tokens -------------------------------- *)
\* t: kind of text; id: the identifier the text starts with; ref: the
\* identifier after "fileRef ="; path: the path or file name the text spells.
Tok(t, id, ref, path) == [t |-> t, id |-> id, ref |-> ref, path |-> path]

BeginFR == Tok("BeginFR", 0, 0, <<>>)   \* /* Begin PBXFileReference section */
EndFR   == Tok("EndFR", 0, 0, <<>>)     \* /* End PBXFileReference section */
BeginBF == Tok("BeginBF", 0, 0, <<>>)   \* /* Begin PBXBuildFile section */
EndBF   == Tok("EndBF", 0, 0, <<>>)     \* /* End PBXBuildFile section */
Open(id)       == Tok("open", id, 0, <<>>)        \* ID = {
OpenNamed(id)  == Tok("openC", id, 0, <<>>)       \* ID /* Name */ = {
IsaGroup       == Tok("isaGroup", 0, 0, <<>>)     \* isa = PBXGroup;
IsaSources     == Tok("isaSources", 0, 0, <<>>)   \* isa = PBXSourcesBuildPhase;
IsaFrameworks  == Tok("isaOther", 0, 0, <<>>)     \* isa = PBXFrameworksBuildPhase;
NameTTT        == Tok("name", 0, 0, <<>>)         \* name = TransactionsTestTask;
Attr(path)     == Tok("attr", 0, 0, path)         \* key = value; (no brace, no parenthesis)
FilesOpen      == Tok("filesOpen", 0, 0, <<>>)    \* files = (
RParen         == Tok("rparen", 0, 0, <<>>)       \* );
RBrace         == Tok("rbrace", 0, 0, <<>>)       \* };

\* "\t\tID /* name */ = {isa = PBXFileReference; ...; path = name; sourceTree = "<group>"; };\n"
file_ref_entry(id, path) == Tok("fileRef", id, 0, path)
\* "\t\tID /* name in Sources */ = {isa = PBXBuildFile; fileRef = REF /* name */; };\n"
build_file_entry(id, ref, path) == Tok("buildFile", id, ref, path)
\* "\t\t\t\tID /* name in Sources */,\n"
sources_entry(id, path) == Tok("entry", id, 0, path)

HasRBrace(tok) == tok.t \in {"rbrace", "fileRef", "buildFile"}   \* the text holds "}"
HasRParen(tok) == tok.t \in {"rparen"}                           \* the text holds ")"

NoRBrace(s, i, j) == \A k \in i..j : ~HasRBrace(s[k])

Min(S) == CHOOSE x \in S : \A y \in S : x <= y
Max(S) == CHOOSE x \in S : \A y \in S : x >= y

(* ---------------------- substring test (line 68) ---------------------- *)
\* p occurs in the text of a token that spells path q when p is a run of
\* consecutive components of q
InText(p, q) ==
  \E k \in 0..(Len(q) - Len(p)) : SubSeq(q, k + 1, k + Len(p)) = p

\* file_path in content
PathInContent(p, s) == \E i \in 1..Len(s) : InText(p, s[i].path)

(* ----------------- regular expressions (lines 51, 57) ----------------- *)
\* (\w{24}) = \{[^}]*isa = <isa>;  followed, for the group, by  [^}]*name = TransactionsTestTask;
HeadAt(s, i, isa) ==
  /\ s[i].t = "open"
  /\ \E j \in (i + 1)..Len(s) : s[j].t = isa /\ NoRBrace(s, i + 1, j - 1)

MainGroupAt(s, i) ==
  /\ s[i].t = "open"
  /\ \E j \in (i + 1)..Len(s) :
       /\ s[j].t = "isaGroup"
       /\ NoRBrace(s, i + 1, j - 1)
       /\ \E k \in (j + 1)..Len(s) : s[k].t = "name" /\ NoRBrace(s, j + 1, k - 1)

\* re.search(...).group(1) of the leftmost match; 0 when there is no match
MainGroupMatch(s) ==
  LET M == {i \in 1..Len(s) : MainGroupAt(s, i)}
  IN  IF M = {} THEN 0 ELSE s[Min(M)].id

SourcesPhaseMatch(s) ==
  LET M == {i \in 1..Len(s) : HeadAt(s, i, "isaSources")}
  IN  IF M = {} THEN 0 ELSE s[Min(M)].id

(* --------------- section searches (lines 83, 95) ---------------------- *)
\* re.search(r'(Begin.*?)End', content, re.DOTALL): the leftmost Begin that
\* has an End after it, up to the first such End.  <<0, 0>> when no match.
SectionMatch(s, begin, end) ==
  LET B == {i \in 1..Len(s) : s[i].t = begin /\ \E j \in (i + 1)..Len(s) : s[j].t = end}
  IN  IF B = {} THEN <<0, 0>>
      ELSE LET i == Min(B)
           IN  <<i, Min({j \in (i + 1)..Len(s) : s[j].t = end})>>

\* str.replace(old, new): every non-overlapping occurrence, left to right
RECURSIVE ReplaceAll(_, _, _)
ReplaceAll(s, old, new) ==
  IF Len(s) < Len(old) THEN s
  ELSE IF SubSeq(s, 1, Len(old)) = old
       THEN new \o ReplaceAll(SubSeq(s, Len(old) + 1, Len(s)), old, new)
       ELSE <<Head(s)>> \o ReplaceAll(Tail(s), old, new)

(* ------------- sources phase pattern (lines 108-118) ------------------ *)
\* (ID = {[^}]*files = \([^)]*) : both stars are greedy
FilesAt(s, sid, i) ==
  /\ s[i].t = "open"
  /\ s[i].id = sid
  /\ \E j \in (i + 1)..Len(s) : s[j].t = "filesOpen" /\ NoRBrace(s, i + 1, j - 1)

\* the pattern with its last star lazy, ([^)]*?): the match ends at "files = ("
FilesMatchLazy(s, sid) ==
  LET M == {i \in 1..Len(s) : FilesAt(s, sid, i)}
  IN  IF M = {} THEN <<0, 0>>
      ELSE LET i == Min(M)
           IN  <<i, Max({k \in (i + 1)..Len(s) :
                           s[k].t = "filesOpen" /\ NoRBrace(s, i + 1, k - 1)})>>

\* the leftmost match as <<first, last>> token positions; <<0, 0>> when none
FilesMatch(s, sid) ==
  LET M == {i \in 1..Len(s) : FilesAt(s, sid, i)}
  IN  IF M = {} THEN <<0, 0>>
      ELSE LET i == Min(M)
               j == Max({k \in (i + 1)..Len(s) :
                           s[k].t = "filesOpen" /\ NoRBrace(s, i + 1, k - 1)})
               P == {k \in (j + 1)..Len(s) : HasRParen(s[k])}
           IN  <<i, IF P = {} THEN Len(s) ELSE Min(P) - 1>>

\* re.sub(pattern, repl, content): every non-overlapping match is replaced
RECURSIVE SubAll(_, _, _)
SubAll(s, sid, repl) ==
  LET m == FilesMatch(s, sid)
  IN  IF m = <<0, 0>> THEN s
      ELSE SubSeq(s, 1, m[1] - 1) \o repl \o SubAll(SubSeq(s, m[2] + 1, Len(s)), sid, repl)

(* ---------------------- dictionaries (lines 64-76) -------------------- *)
\* a dict in insertion order: a sequence of [path, id] items
Item(p, id) == [path |-> p, id |-> id]
Get(d, p) == (CHOOSE k \in 1..Len(d) : d[k].path = p)
Keys(d) == {d[k].path : k \in 1..Len(d)}

(* ------------------- the three patches (lines 82-118) ----------------- *)
RECURSIVE FileRefEntries(_)
FileRefEntries(refs) ==
  IF refs = <<>> THEN <<>>
  ELSE <<file_ref_entry(Head(refs).id, <<basename(Head(refs).path)>>)>>
         \o FileRefEntries(Tail(refs))

\* the build file record written under the file reference's identifier
RECURSIVE BuildFileEntriesKeyedByRef(_, _)
BuildFileEntriesKeyedByRef(builds, refs) ==
  IF builds = <<>> THEN <<>>
  ELSE <<build_file_entry(refs[Get(refs, Head(builds).path)].id,
                          refs[Get(refs, Head(builds).path)].id,
                          <<basename(Head(builds).path)>>)>>
         \o BuildFileEntriesKeyedByRef(Tail(builds), refs)

RECURSIVE BuildFileEntries(_, _)
BuildFileEntries(builds, refs) ==
  IF builds = <<>> THEN <<>>
  ELSE <<build_file_entry(Head(builds).id, refs[Get(refs, Head(builds).path)].id,
                          <<basename(Head(builds).path)>>)>>
         \o BuildFileEntries(Tail(builds), refs)

RECURSIVE SourcesEntries(_)
SourcesEntries(builds) ==
  IF builds = <<>> THEN <<>>
  ELSE <<sources_entry(Head(builds).id, <<basename(Head(builds).path)>>)>>
         \o SourcesEntries(Tail(builds))

\* the replacement built without the closing marker
PatchFileRefsNoEnd(s, refs) ==
  LET m == SectionMatch(s, "BeginFR", "EndFR")
  IN  IF m = <<0, 0>> THEN s
      ELSE ReplaceAll(s, SubSeq(s, m[1], m[2]),
                      SubSeq(s, m[1], m[2] - 1) \o FileRefEntries(refs))

\* lines 83-92
PatchFileRefs(s, refs) ==
  LET m == SectionMatch(s, "BeginFR", "EndFR")
  IN  IF m = <<0, 0>> THEN s
      ELSE ReplaceAll(s, SubSeq(s, m[1], m[2]),
                      SubSeq(s, m[1], m[2] - 1) \o FileRefEntries(refs) \o <<EndFR>>)

\* lines 95-105
PatchBuildFiles(s, builds, refs) ==
  LET m == SectionMatch(s, "BeginBF", "EndBF")
  IN  IF m = <<0, 0>> THEN s
      ELSE ReplaceAll(s, SubSeq(s, m[1], m[2]),
                      SubSeq(s, m[1], m[2] - 1) \o BuildFileEntries(builds, refs) \o <<EndBF>>)

\* lines 108-118
PatchSources(s, sid, builds) ==
  LET m == FilesMatch(s, sid)
  IN  IF m = <<0, 0>> THEN s
      ELSE SubAll(s, sid, SubSeq(s, m[1], m[2]) \o SourcesEntries(builds))

(* ------------------------------ output -------------------------------- *)
Msg(kind, path, n) == [kind |-> kind, path |-> path, n |-> n]

(* ------------------------------- state -------------------------------- *)
VARIABLES
  fileExists,        \* os.path.exists(project_file)
  fileContent,       \* the text of project.pbxproj on disk
  pc,                \* position in add_files_to_xcode_project
  content,           \* local: content
  main_group_id,     \* local: main_group_id
  sources_phase_id,  \* local: sources_phase_id
  idx,               \* position of the for loop of line 67 in files_to_add
  file_refs,         \* local: file_refs
  build_files,       \* local: build_files
  output,            \* lines printed by this run
  run,               \* number of the current invocation
  runStart,          \* history: the file's text when this run started
  wrote,             \* history: this run has written the file
  applied,           \* history: the patch steps this run applied
  prevAdded          \* history: len(file_refs) of the previous run, 0 if none

vars == <<fileExists, fileContent, pc, content, main_group_id,
          sources_phase_id, idx, file_refs, build_files, output, run,
          runStart, wrote, applied, prevAdded>>

disk == <<fileExists, fileContent, run, runStart, prevAdded>>

(* ------------------------- initial documents -------------------------- *)
\* Identifiers already in the document: of an existing file reference, of
\* an existing build file (and up), of the frameworks build phase, of the
\* main group and of the sources build phase
ExistingIds == <<1, 11, 21, 22, 23>>
OldRef == ExistingIds[1]
OldBuild == ExistingIds[2]
FrameworksId == ExistingIds[3]
GroupId == ExistingIds[4]
SourcesId == ExistingIds[5]
OldName == <<"AppDelegate.swift">>

RECURSIVE Mentions(_, _)
\* one attribute spelling each path of files_to_add whose index is in S
Mentions(S, k) ==
  IF k > Len(files_to_add) THEN <<>>
  ELSE (IF k \in S THEN <<Attr(files_to_add[k])>> ELSE <<>>) \o Mentions(S, k + 1)

BuildFileSection(has) ==
  IF has THEN <<BeginBF, build_file_entry(OldBuild, OldRef, OldName), EndBF>> ELSE <<>>

FileRefSection(has, S) ==
  IF has THEN <<BeginFR, file_ref_entry(OldRef, OldName)>> \o Mentions(S, 1) \o <<EndFR>>
  ELSE Mentions(S, 1)

FrameworksPhase ==
  <<Open(FrameworksId), IsaFrameworks, FilesOpen, RParen, RBrace>>

GroupRecord(kind) ==
  CASE kind = "named"     -> <<Open(GroupId), IsaGroup, Attr(<<>>), NameTTT, RBrace>>
    [] kind = "unnamed"   -> <<Open(GroupId), IsaGroup, Attr(<<>>), RBrace>>
    [] kind = "commented" -> <<OpenNamed(GroupId), IsaGroup, Attr(<<>>), NameTTT, RBrace>>
    [] OTHER              -> <<>>

RECURSIVE OldEntries(_)
OldEntries(n) ==
  IF n = 0 THEN <<>> ELSE OldEntries(n - 1) \o <<sources_entry(OldBuild + (n - 1), OldName)>>

\* kind "list": the record with a files list of n entries; "nolist": the
\* record without a files list; otherwise no sources phase record
SourcesPhase(kind, n) ==
  CASE kind = "list"   -> <<Open(SourcesId), IsaSources, Attr(<<>>), FilesOpen>>
                            \o OldEntries(n) \o <<RParen, Attr(<<>>), RBrace>>
    [] kind = "nolist" -> <<Open(SourcesId), IsaSources, Attr(<<>>), RBrace>>
    [] OTHER           -> <<>>

Document(bf, fr, S, group, phase, n) ==
  BuildFileSection(bf) \o FileRefSection(fr, S) \o FrameworksPhase
    \o GroupRecord(group) \o SourcesPhase(phase, n)

Documents ==
  {Document(bf, fr, S, g, "list", n) :
     bf \in BOOLEAN, fr \in BOOLEAN, S \in SUBSET (1..NumFiles),
     g \in {"named", "unnamed", "commented", "none"}, n \in 0..MaxEntries}
  \cup
  {Document(bf, fr, S, g, ph, 0) :
     bf \in BOOLEAN, fr \in BOOLEAN, S \in SUBSET (1..NumFiles),
     g \in {"named", "unnamed", "commented", "none"}, ph \in {"nolist", "none"}}

Locals ==
  /\ pc = "start"
  /\ content = <<>>
  /\ main_group_id = 0
  /\ sources_phase_id = 0
  /\ idx = 1
  /\ file_refs = <<>>
  /\ build_files = <<>>
  /\ output = <<>>
  /\ wrote = FALSE
  /\ applied = {}

Init ==
  /\ fileExists \in BOOLEAN
  /\ fileContent \in Documents
  /\ run = 1
  /\ runStart = fileContent
  /\ prevAdded = 0
  /\ Locals

(* ------------------------------ actions ------------------------------- *)
\* lines 42-48
ReadProject ==
  /\ pc = "start"
  /\ IF ~fileExists
     THEN /\ output' = Append(output, Msg("ErrorNotFound", <<>>, 0))
          /\ pc' = "done"
          /\ UNCHANGED content
     ELSE /\ content' = fileContent
          /\ pc' = "group"
          /\ UNCHANGED output
  /\ UNCHANGED <<disk, main_group_id, sources_phase_id, idx, file_refs,
                 build_files, wrote, applied>>

\* the error branch without its return
FindMainGroupContinues ==
  /\ pc = "group"
  /\ IF MainGroupMatch(content) = 0
     THEN output' = Append(output, Msg("ErrorMainGroup", <<>>, 0))
     ELSE UNCHANGED output
  /\ main_group_id' = MainGroupMatch(content)
  /\ pc' = "phase"
  /\ UNCHANGED <<disk, content, sources_phase_id, idx, file_refs,
                 build_files, wrote, applied>>

\* lines 51-55
FindMainGroup ==
  /\ pc = "group"
  /\ IF MainGroupMatch(content) = 0
     THEN /\ output' = Append(output, Msg("ErrorMainGroup", <<>>, 0))
          /\ pc' = "done"
          /\ UNCHANGED main_group_id
     ELSE /\ main_group_id' = MainGroupMatch(content)
          /\ pc' = "phase"
          /\ UNCHANGED output
  /\ UNCHANGED <<disk, content, sources_phase_id, idx, file_refs,
                 build_files, wrote, applied>>

\* lines 57-61
FindSourcesPhase ==
  /\ pc = "phase"
  /\ IF SourcesPhaseMatch(content) = 0
     THEN /\ output' = Append(output, Msg("ErrorSourcesPhase", <<>>, 0))
          /\ pc' = "done"
          /\ UNCHANGED sources_phase_id
     ELSE /\ sources_phase_id' = SourcesPhaseMatch(content)
          /\ pc' = "scan"
          /\ UNCHANGED output
  /\ UNCHANGED <<disk, content, main_group_id, idx, file_refs,
                 build_files, wrote, applied>>

\* the identifiers of a dictionary's items
Ids(d) == {d[k].id : k \in 1..Len(d)}
\* every identifier the text s spells
IdsIn(s) == {s[i].id : i \in 1..Len(s)} \cup {s[i].ref : i \in 1..Len(s)}

\* lines 7-9: str(uuid.uuid4()).replace('-', '').upper()[:24] is a random
\* draw of 24 hexadecimal digits; nothing relates it to earlier draws or to
\* the document, so any identifier can come out.  Identifiers matter only by
\* which other identifiers they equal, so the outcomes are: an identifier
\* drawn earlier in this run, the identifier of the document's existing file
\* reference or build file, or one that occurs nowhere (the least unused
\* number).
generate_uuid(drawn) ==
  LET used == IdsIn(content) \cup drawn \cup {OldRef, OldBuild}
  IN  drawn \cup {OldRef, OldBuild}
        \cup {Min({n \in 1..(Cardinality(used) + 1) : n \notin used})}

\* the loop body without its continue
ScanFileNoContinue ==
  /\ pc = "scan"
  /\ idx <= Len(files_to_add)
  /\ LET file_path == files_to_add[idx]
     IN  /\ output' = IF PathInContent(file_path, content)
                      THEN Append(output, Msg("AlreadyExists", file_path, 0))
                      ELSE output
         /\ \E file_ref_id \in generate_uuid(Ids(file_refs) \cup Ids(build_files)) :
            \E build_file_id \in generate_uuid(Ids(file_refs) \cup Ids(build_files)
                                                  \cup {file_ref_id}) :
              /\ file_refs' = Append(file_refs, Item(file_path, file_ref_id))
              /\ build_files' = Append(build_files, Item(file_path, build_file_id))
  /\ idx' = idx + 1
  /\ UNCHANGED <<disk, pc, content, main_group_id, sources_phase_id, wrote, applied>>

\* lines 67-76: one iteration of the loop
ScanFile ==
  /\ pc = "scan"
  /\ idx <= Len(files_to_add)
  /\ LET file_path == files_to_add[idx]
     IN  IF PathInContent(file_path, content)
         THEN /\ output' = Append(output, Msg("AlreadyExists", file_path, 0))
              /\ UNCHANGED <<file_refs, build_files>>
         ELSE \E file_ref_id \in generate_uuid(Ids(file_refs) \cup Ids(build_files)) :
              \E build_file_id \in generate_uuid(Ids(file_refs) \cup Ids(build_files)
                                                    \cup {file_ref_id}) :
                /\ file_refs' = Append(file_refs, Item(file_path, file_ref_id))
                /\ build_files' = Append(build_files, Item(file_path, build_file_id))
                /\ UNCHANGED output
  /\ idx' = idx + 1
  /\ UNCHANGED <<disk, pc, content, main_group_id, sources_phase_id, wrote, applied>>

\* the empty case without its return
CheckNothingToAddFallsThrough ==
  /\ pc = "scan"
  /\ idx > Len(files_to_add)
  /\ output' = IF file_refs = <<>>
               THEN Append(output, Msg("AllExist", <<>>, 0)) ELSE output
  /\ pc' = "fileRefs"
  /\ UNCHANGED <<disk, content, main_group_id, sources_phase_id, idx,
                 file_refs, build_files, wrote, applied>>

\* lines 78-80
CheckNothingToAdd ==
  /\ pc = "scan"
  /\ idx > Len(files_to_add)
  /\ IF file_refs = <<>>
     THEN /\ output' = Append(output, Msg("AllExist", <<>>, 0))
          /\ pc' = "done"
     ELSE /\ pc' = "fileRefs"
          /\ UNCHANGED output
  /\ UNCHANGED <<disk, content, main_group_id, sources_phase_id, idx,
                 file_refs, build_files, wrote, applied>>

\* lines 82-92
AddFileRefs ==
  /\ pc = "fileRefs"
  /\ content' = PatchFileRefs(content, file_refs)
  /\ applied' = IF SectionMatch(content, "BeginFR", "EndFR") = <<0, 0>>
                THEN applied ELSE applied \cup {"fileRefs"}
  /\ pc' = "buildFiles"
  /\ UNCHANGED <<disk, main_group_id, sources_phase_id, idx, file_refs,
                 build_files, output, wrote>>

\* lines 94-105
AddBuildFiles ==
  /\ pc = "buildFiles"
  /\ content' = PatchBuildFiles(content, build_files, file_refs)
  /\ applied' = IF SectionMatch(content, "BeginBF", "EndBF") = <<0, 0>>
                THEN applied ELSE applied \cup {"buildFiles"}
  /\ pc' = "sources"
  /\ UNCHANGED <<disk, main_group_id, sources_phase_id, idx, file_refs,
                 build_files, output, wrote>>

\* lines 107-118
AddSources ==
  /\ pc = "sources"
  /\ content' = PatchSources(content, sources_phase_id, build_files)
  /\ applied' = IF FilesMatch(content, sources_phase_id) = <<0, 0>>
                THEN applied ELSE applied \cup {"sources"}
  /\ pc' = "write"
  /\ UNCHANGED <<disk, main_group_id, sources_phase_id, idx, file_refs,
                 build_files, output, wrote>>

RECURSIVE AddedLines(_)
AddedLines(refs) ==
  IF refs = <<>> THEN <<>>
  ELSE <<Msg("AddedItem", Head(refs).path, 0)>> \o AddedLines(Tail(refs))

\* lines 120-126
WriteProject ==
  /\ pc = "write"
  /\ fileContent' = content
  /\ wrote' = TRUE
  /\ output' = output \o <<Msg("Added", <<>>, Len(file_refs))>> \o AddedLines(file_refs)
  /\ pc' = "done"
  /\ UNCHANGED <<fileExists, run, runStart, prevAdded, content,
                 main_group_id, sources_phase_id, idx, file_refs, build_files, applied>>

\* lines 128-129: the script is invoked again
Rerun ==
  /\ pc = "done"
  /\ run < MaxRuns
  /\ run' = run + 1
  /\ runStart' = fileContent
  /\ prevAdded' = IF wrote THEN Len(file_refs) ELSE 0
  /\ pc' = "start"
  /\ content' = <<>>
  /\ main_group_id' = 0
  /\ sources_phase_id' = 0
  /\ idx' = 1
  /\ file_refs' = <<>>
  /\ build_files' = <<>>
  /\ output' = <<>>
  /\ wrote' = FALSE
  /\ applied' = {}
  /\ UNCHANGED <<fileExists, fileContent>>

Next ==
  \/ ReadProject
  \/ FindMainGroup
  \/ FindSourcesPhase
  \/ ScanFile
  \/ CheckNothingToAdd
  \/ AddFileRefs
  \/ AddBuildFiles
  \/ AddSources
  \/ WriteProject

Spec == Init /\ [][Next]_vars

\* The script run up to MaxRuns times in a row on well-formed documents
InitRerun ==
  /\ fileExists = TRUE
  /\ fileContent \in {Document(TRUE, TRUE, S, "named", "list", n) :
                        S \in SUBSET (1..NumFiles), n \in 0..MaxEntries}
  /\ run = 1
  /\ runStart = fileContent
  /\ prevAdded = 0
  /\ Locals

NextRerun == Next \/ Rerun

SpecRerun == InitRerun /\ [][NextRerun]_vars

(* ------------------- vocabulary of the properties --------------------- *)
Done == pc = "done"
AllSteps == {"fileRefs", "buildFiles", "sources"}

\* The zone of each piece of s: "FR" or "BF" strictly inside a closed
\* Begin ... End pair of that section, "list" inside the files list of the
\* record headed by SourcesId, "out" elsewhere (the markers, "files = (" and
\* ");" are outside).  sec: the section the scan is in; ph: where it is in
\* the sources phase record.
RECURSIVE Zones(_, _, _, _)
Zones(s, i, sec, ph) ==
  IF i > Len(s) THEN <<>>
  ELSE LET t == s[i].t
           closed(end) == \E e \in (i + 1)..Len(s) : s[e].t = end
           opens == /\ sec = ""
                    /\ \/ t = "BeginFR" /\ closed("EndFR")
                       \/ t = "BeginBF" /\ closed("EndBF")
           closes == (sec = "FR" /\ t = "EndFR") \/ (sec = "BF" /\ t = "EndBF")
           sec2 == IF opens THEN (IF t = "BeginFR" THEN "FR" ELSE "BF")
                   ELSE IF closes THEN "" ELSE sec
           ph2 == IF s[i] = Open(SourcesId) THEN "head"
                  ELSE IF ph = "head" /\ t = "rbrace" THEN "none"
                  ELSE IF ph = "head" /\ t = "filesOpen" THEN "list"
                  ELSE IF ph = "list" /\ t = "rparen" THEN "none"
                  ELSE ph
           zone == IF sec # "" /\ ~closes THEN sec
                   ELSE IF ph = "list" /\ ph2 = "list" THEN "list"
                   ELSE "out"
       IN  <<zone>> \o Zones(s, i + 1, sec2, ph2)

RECURSIVE PickFrom(_, _, _, _)
PickFrom(s, z, zone, i) ==
  IF i > Len(s) THEN <<>>
  ELSE (IF z[i] = zone THEN <<s[i]>> ELSE <<>>) \o PickFrom(s, z, zone, i + 1)

InZone(s, zone) == PickFrom(s, Zones(s, 1, "", "none"), zone, 1)

FileRefText(s) == InZone(s, "FR")
BuildFileText(s) == InZone(s, "BF")
FilesList(s) == InZone(s, "list")
Outside(s) == InZone(s, "out")

HasFilesList(s) ==
  \E o \in 1..Len(s) : \E f \in (o + 1)..Len(s) :
    s[o] = Open(SourcesId) /\ s[f].t = "filesOpen" /\ \A k \in o..f : s[k].t # "rbrace"

\* how many pieces of kind t spell the file name b
Count(s, t, b) == Cardinality({i \in 1..Len(s) : s[i].t = t /\ s[i].path = b})
\* how many of them the run has added to the file
New(t, b) == Count(fileContent, t, b) - Count(runStart, t, b)

Printed(kind) == \E i \in 1..Len(output) : output[i].kind = kind
PrintedFor(kind, p) == \E i \in 1..Len(output) : output[i].kind = kind /\ output[i].path = p

\* the targets that do not occur in the document the run started from, in list order
RECURSIVE AbsentFrom(_)
AbsentFrom(k) ==
  IF k > Len(files_to_add) THEN <<>>
  ELSE (IF PathInContent(files_to_add[k], runStart) THEN <<>> ELSE <<files_to_add[k]>>)
         \o AbsentFrom(k + 1)
Absent == AbsentFrom(1)

IsRecord(tok) == tok.t \in {"fileRef", "buildFile", "open", "openC"}
KeysOf(s) == {s[i].id : i \in {k \in 1..Len(s) : IsRecord(s[k])}}
KeysUnique(s) ==
  \A i, j \in 1..Len(s) :
    (IsRecord(s[i]) /\ IsRecord(s[j]) /\ i # j) => s[i].id # s[j].id

\* the identifiers drawn so far, in the order drawn
RECURSIVE DrawnOf(_, _)
DrawnOf(refs, builds) ==
  IF refs = <<>> THEN <<>>
  ELSE <<Head(refs).id, Head(builds).id>> \o DrawnOf(Tail(refs), Tail(builds))
Drawn == DrawnOf(file_refs, build_files)
DrawsDistinct == \A i, j \in 1..Len(Drawn) : i # j => Drawn[i] # Drawn[j]
DrawsFresh == \A i \in 1..Len(Drawn) : Drawn[i] \notin KeysOf(runStart)

(* ------------------------------- C1 ----------------------------------- *)
\* C1 (as claimed): when a first run has added at least one file, a second
\* run on the document it wrote, with the same target list, adds no file
\* and leaves the document unchanged.
C1_Idempotence ==
  (run >= 2 /\ Done /\ prevAdded >= 1) => (file_refs = <<>> /\ ~wrote /\ fileContent = runStart)

(* ------------------------------- C2 ----------------------------------- *)
\* C2 (as claimed): in every document the run writes, each build-file record
\* the run added names a file reference that is in the document, and each
\* entry the run appended to the files list names a build file that is in
\* the document.
C2_ReferentialIntegrity ==
  wrote =>
    \A k \in 1..Len(build_files) :
      /\ "buildFiles" \in applied =>
           \E i \in 1..Len(fileContent) :
             fileContent[i].t = "fileRef" /\ fileContent[i].id = file_refs[k].id
      /\ "sources" \in applied =>
           \E i \in 1..Len(fileContent) :
             fileContent[i].t = "buildFile" /\ fileContent[i].id = build_files[k].id

(* ------------------------------- C3 ----------------------------------- *)
\* C3 (as claimed): for every file reported as added the written document
\* holds exactly one new file reference, one new build file and one new
\* files-list entry, and the build file's fileRef is the identifier of
\* exactly one file reference.
C3_Conservation ==
  (Done /\ Printed("Added")) =>
    \A k \in 1..Len(file_refs) :
      LET b == <<basename(file_refs[k].path)>>
      IN  /\ PrintedFor("AddedItem", file_refs[k].path)
          /\ New("fileRef", b) = 1
          /\ New("buildFile", b) = 1
          /\ New("entry", b) = 1
          /\ \A i \in 1..Len(fileContent) :
               (fileContent[i].t = "buildFile" /\ fileContent[i].path = b) =>
                 Cardinality({j \in 1..Len(fileContent) :
                                /\ fileContent[j].t = "fileRef"
                                /\ fileContent[j].id = fileContent[i].ref}) = 1

(* ------------------------------- C4 ----------------------------------- *)
\* C4: when the project file does not exist, or no PBXGroup record named
\* TransactionsTestTask is found, or no PBXSourcesBuildPhase record is found,
\* the run never writes the file, the file is as it was, and a run that has
\* ended has printed exactly the error of the first failing check.
C4_FatalAbort ==
  /\ ~fileExists =>
       /\ ~wrote /\ fileContent = runStart
       /\ Done => output = <<Msg("ErrorNotFound", <<>>, 0)>>
  /\ (fileExists /\ MainGroupMatch(runStart) = 0) =>
       /\ ~wrote /\ fileContent = runStart
       /\ Done => output = <<Msg("ErrorMainGroup", <<>>, 0)>>
  /\ (fileExists /\ MainGroupMatch(runStart) # 0 /\ SourcesPhaseMatch(runStart) = 0) =>
       /\ ~wrote /\ fileContent = runStart
       /\ Done => output = <<Msg("ErrorSourcesPhase", <<>>, 0)>>

\* a run on a document without the named main group has ended
C4_Witness ==
  /\ Done /\ fileExists
  /\ MainGroupMatch(runStart) = 0
  /\ output = <<Msg("ErrorMainGroup", <<>>, 0)>>
  /\ \E i \in 1..Len(runStart) : runStart[i].t = "isaGroup"

(* ------------------------------- C5 ----------------------------------- *)
\* C5 (as claimed): when a run applies one of the three insertion steps and
\* skips another because its section was not found, its output holds a line
\* other than the normal success report.
C5_PartialReported ==
  (Done /\ wrote /\ applied # {} /\ applied # AllSteps) =>
    \E i \in 1..Len(output) : output[i].kind \notin {"AlreadyExists", "Added", "AddedItem"}

(* ------------------------------- C6 ----------------------------------- *)
\* C6: in every document a run writes, the text outside the PBXFileReference
\* section, the PBXBuildFile section and the sources phase's files list is
\* the text of the initial document, and the text inside each of the three
\* whose step was not applied is unchanged too.
C6_NonInterference ==
  wrote =>
    /\ Outside(fileContent) = Outside(runStart)
    /\ "fileRefs" \notin applied => FileRefText(fileContent) = FileRefText(runStart)
    /\ "buildFiles" \notin applied => BuildFileText(fileContent) = BuildFileText(runStart)
    /\ "sources" \notin applied => FilesList(fileContent) = FilesList(runStart)

\* a run has written a document with new file references and build files
\* while the files list, not found, kept its non-empty surroundings
C6_Witness ==
  /\ wrote
  /\ applied = {"fileRefs", "buildFiles"}
  /\ Len(fileContent) > Len(runStart)
  /\ Len(Outside(runStart)) > 0

(* ------------------------------- C7 ----------------------------------- *)
\* C7 (as claimed): for every target path, the run generates identifiers and
\* adds records for it if and only if the path does not occur in the initial
\* document.
C7_SkipIffPresent ==
  (Done /\ fileExists) =>
    \A k \in 1..Len(files_to_add) :
      LET p == files_to_add[k]
          b == <<basename(p)>>
      IN  (/\ p \in Keys(file_refs)
           /\ New("fileRef", b) >= 1 /\ New("buildFile", b) >= 1 /\ New("entry", b) >= 1)
            <=> ~PathInContent(p, runStart)

\* C7 (amended): in a run that finds the main group and the sources phase,
\* identifiers are generated for a target path if and only if the path does
\* not occur in the initial document; a path that occurs is reported as
\* already existing and gets no record; a path that does not occur gets, in
\* the written document, one record in each section the run found and none
\* in a section it did not find.
C7_SkipCorrect ==
  (sources_phase_id # 0 /\ idx > Len(files_to_add)) =>
    \A k \in 1..Len(files_to_add) :
      LET p == files_to_add[k]
          b == <<basename(p)>>
      IN  /\ p \in Keys(file_refs) <=> ~PathInContent(p, runStart)
          /\ p \in Keys(build_files) <=> ~PathInContent(p, runStart)
          /\ PathInContent(p, runStart) =>
               /\ PrintedFor("AlreadyExists", p)
               /\ New("fileRef", b) = 0 /\ New("buildFile", b) = 0 /\ New("entry", b) = 0
          /\ (~PathInContent(p, runStart) /\ wrote) =>
               /\ ~PrintedFor("AlreadyExists", p)
               /\ New("fileRef", b) = IF "fileRefs" \in applied THEN 1 ELSE 0
               /\ New("buildFile", b) = IF "buildFiles" \in applied THEN 1 ELSE 0
               /\ New("entry", b) = IF "sources" \in applied THEN 1 ELSE 0

\* a run has written records for one target and skipped the other
C7_Witness ==
  /\ Done /\ wrote /\ applied = AllSteps
  /\ Len(file_refs) = 1
  /\ Printed("AlreadyExists")
  /\ \E k \in 1..Len(files_to_add) : PathInContent(files_to_add[k], runStart)

C9_NothingToDo ==
  (Done /\ fileExists /\ Absent = <<>>) =>
    /\ Printed("AllExist")
    /\ ~Printed("ErrorMainGroup") /\ ~Printed("ErrorSourcesPhase")
    /\ ~wrote

\* C9 (amended): whenever every target path occurs in the document and the
\* main group and the sources phase are found, the run reports each path as
\* already existing, then that there is nothing to do, and ends without
\* writing; the three patch sections are searched only when the to-add set
\* is not empty.  (The main group and the sources phase are looked up before
\* the targets are examined, and their absence is reported as an error.)
C9_NothingToDoAfterLookups ==
  /\ (Done /\ fileExists /\ Absent = <<>>
        /\ MainGroupMatch(runStart) # 0 /\ SourcesPhaseMatch(runStart) # 0) =>
       /\ Len(output) = Len(files_to_add) + 1
       /\ \A k \in 1..Len(files_to_add) :
            output[k] = Msg("AlreadyExists", files_to_add[k], 0)
       /\ output[Len(output)] = Msg("AllExist", <<>>, 0)
       /\ ~wrote /\ fileContent = runStart /\ applied = {}
  /\ (pc \in {"fileRefs", "buildFiles", "sources", "write"} \/ applied # {} \/ wrote) =>
       file_refs # <<>>
  /\ (Absent = <<>>) => (~wrote /\ content \in {<<>>, runStart})

\* a run on a document that names every target has ended with nothing to do
C9_Witness ==
  /\ Done /\ fileExists /\ Absent = <<>>
  /\ Printed("AllExist")
  /\ main_group_id # 0 /\ sources_phase_id # 0

(* ------------------------------- C10 ---------------------------------- *)
\* C10 (as claimed): every identifier generate_uuid allocates in a run
\* differs from every other one allocated in the run and from every record
\* identifier in the document, so no two records of the written document
\* share a key.
C10_IdentifiersUnique ==
  /\ DrawsDistinct /\ DrawsFresh
  /\ wrote => KeysUnique(fileContent)

\* C10 (amended): uniqueness is not enforced, generate_uuid draws without
\* regard to earlier draws or to the document; in a run whose draws happen
\* to differ from one another and from every record identifier of the
\* document, each added record is keyed by its own draw, so no two records
\* of the written document share a key.
C10_UniqueWhenDrawsDiffer ==
  (wrote /\ DrawsDistinct /\ DrawsFresh) => KeysUnique(fileContent)

\* two files were added under four identifiers that differ and are new
C10_Witness ==
  /\ wrote /\ applied = AllSteps
  /\ Len(file_refs) = 2
  /\ DrawsDistinct /\ DrawsFresh
  /\ Cardinality(KeysOf(fileContent)) = Cardinality(KeysOf(runStart)) + 4

=============================================================================
